---- MODULE Spec2Model ----
(***************************************************************************)
(* Model of app/main.py of the Phasmo Expense Calculator: the EMF sound    *)
(* engine (EMFSound), the tier function emf_level_from_total and the       *)
(* handlers of MainWindow (reload, on_add, on_manage, on_settings,         *)
(* on_export).  Money is counted in hundredths of the currency unit, the   *)
(* precision the window displays (".2f").  The database, the dialogs and   *)
(* the PDF export live in modules outside main.py; they are modelled by    *)
(* what main.py expects of them.                                           *)
(***************************************************************************)
EXTENDS Integers, Sequences, FiniteSets, TLC

VARIABLES
    HAVE_SOUND,   \* module flag: QtMultimedia could be imported
    wavs,         \* levels whose assets/emf<lvl>.wav file exists
    db,           \* expense table: [Kinds -> number of such records]
    settings,     \* settings store: [sound_enabled, currency]
    sfx,          \* EMFSound: [enabled, cur_level, effects, playing]
    cmb_year,     \* year combo: [items, current]
    cmb_month,    \* month combo: current month (index + 1)
    table,        \* rows shown in the table widget
    lbl_total,    \* text of the "Monthly Total" label
    emf_dot,      \* colour of the EMF dot
    lbl_emf,      \* text of the EMF label
    total,        \* local `total` of the last reload
    lvl,          \* local `lvl` of the last reload
    export        \* what the last on_export call did

vars == <<HAVE_SOUND, wavs, db, settings, sfx, cmb_year, cmb_month, table,
          lbl_total, emf_dot, lbl_emf, total, lvl, export>>

----------------------------------------------------------------------------
(* Bounds and input sets *)

MaxExpenses == 3
LevelMargin == 2

Cents == 100

Years == {2025, 2026}
Months == {11, 12}
Today == [y |-> 2026, m |-> 11]
Amounts == {-1, 500 * Cents, 1000 * Cents}
Currencies == {"GBP", "USD"}
Paths == {"", "out.pdf"}
ClipLevels == {2, 3, 4, 5}
WavSets == {{}, {2, 4}, {2, 3, 4, 5}}
LevelArgs == (1 - LevelMargin)..(5 + LevelMargin)

Dates == {[y |-> 2025, m |-> 12], [y |-> 2026, m |-> 11]}
NoValues == [y |-> 0, m |-> 0, amount |-> 0]

Kinds == {[y |-> d.y, m |-> d.m, amount |-> a] : d \in Dates, a \in Amounts}

----------------------------------------------------------------------------
(* Database layer (app/db.py) *)

EmptyDb == [k \in Kinds |-> 0]

RECURSIVE SumOver(_, _)
SumOver(f, S) ==
    IF S = {} THEN 0
    ELSE LET k == CHOOSE x \in S : TRUE
         IN f[k] + SumOver(f, S \ {k})

db_size(d) == SumOver(d, Kinds)

add_expense(d, y, m, amount) ==
    LET k == [y |-> y, m |-> m, amount |-> amount]
    IN [d EXCEPT ![k] = @ + 1]

RECURSIVE DbsUpTo(_)
DbsUpTo(n) ==
    IF n = 0 THEN {EmptyDb}
    ELSE LET prev == DbsUpTo(n - 1)
         IN prev \cup {add_expense(d, k.y, k.m, k.amount) : d \in prev, k \in Kinds}

list_month(d, y, m) ==
    [a \in Amounts |->
        LET k == [y |-> y, m |-> m, amount |-> a]
        IN IF k \in Kinds THEN d[k] ELSE 0]

RECURSIVE SumAmounts(_, _)
SumAmounts(rows, S) ==
    IF S = {} THEN 0
    ELSE LET a == CHOOSE x \in S : TRUE
         IN a * rows[a] + SumAmounts(rows, S \ {a})

month_total(d, y, m) == SumAmounts(list_month(d, y, m), Amounts)

distinct_years(d) == {k.y : k \in {x \in Kinds : d[x] > 0}}

get_settings == settings

\* ManageDialog(y, m).exec(): the user deletes any of the month's records
ManageDialog(d, y, m) ==
    {[k \in Kinds |-> IF k.y = y /\ k.m = m THEN keep[k.amount] ELSE d[k]] :
        keep \in {r \in [Amounts -> 0..SumOver(list_month(d, y, m), Amounts)] :
                    \A a \in Amounts : r[a] <= list_month(d, y, m)[a]}}

----------------------------------------------------------------------------
(* EMF sound *)

EMFSound(assets, enabled) ==
    LET en == enabled /\ HAVE_SOUND
    IN [enabled   |-> en,
        cur_level |-> 1,
        effects   |-> IF en THEN ClipLevels \cap assets ELSE {},
        playing   |-> {}]

\* set_muted that only flips the flag
set_muted_flag_only(s, muted) ==
    [s EXCEPT !.enabled = (~muted) /\ HAVE_SOUND]

stop(s) == [s EXCEPT !.playing = {}, !.cur_level = 1]

set_muted(s, muted) ==
    LET s1 == [s EXCEPT !.enabled = (~muted) /\ HAVE_SOUND]
    IN IF muted THEN stop(s1) ELSE s1

Max(a, b) == IF a >= b THEN a ELSE b
Min(a, b) == IF a <= b THEN a ELSE b

\* play_for_level that never restarts the clip of the current level
play_for_level_no_restart(s, level) ==
    IF ~s.enabled \/ s.effects = {} THEN stop(s)
    ELSE LET l == Max(1, Min(5, level))
         IN IF l = 1 THEN stop(s)
            ELSE IF l = s.cur_level THEN s
                 ELSE LET s1 == [stop(s) EXCEPT !.cur_level = l]
                      IN IF l \in s1.effects
                         THEN [s1 EXCEPT !.playing = @ \cup {l}]
                         ELSE s1

\* play_for_level that does not clamp the requested level
play_for_level_no_clamp(s, level) ==
    IF ~s.enabled \/ s.effects = {} THEN stop(s)
    ELSE LET l == level
         IN IF l = 1 THEN stop(s)
            ELSE IF l = s.cur_level
                 THEN IF l \in s.effects /\ l \notin s.playing
                      THEN [s EXCEPT !.playing = @ \cup {l}]
                      ELSE s
                 ELSE LET s1 == [stop(s) EXCEPT !.cur_level = l]
                      IN IF l \in s1.effects
                         THEN [s1 EXCEPT !.playing = @ \cup {l}]
                         ELSE s1

play_for_level(s, level) ==
    IF ~s.enabled \/ s.effects = {} THEN stop(s)
    ELSE LET l == Max(1, Min(5, level))
         IN IF l = 1 THEN stop(s)
            ELSE IF l = s.cur_level
                 THEN IF l \in s.effects /\ l \notin s.playing
                      THEN [s EXCEPT !.playing = @ \cup {l}]
                      ELSE s
                 ELSE LET s1 == [stop(s) EXCEPT !.cur_level = l]
                      IN IF l \in s1.effects
                         THEN [s1 EXCEPT !.playing = @ \cup {l}]
                         ELSE s1

\* the tier function with strict comparisons
emf_level_from_total_strict(t) ==
    IF t > 2000 * Cents THEN 5
    ELSE IF t > 1500 * Cents THEN 4
    ELSE IF t > 1000 * Cents THEN 3
    ELSE IF t > 500 * Cents THEN 2
    ELSE 1

emf_level_from_total(t) ==
    IF t >= 2000 * Cents THEN 5
    ELSE IF t >= 1500 * Cents THEN 4
    ELSE IF t >= 1000 * Cents THEN 3
    ELSE IF t >= 500 * Cents THEN 2
    ELSE 1

----------------------------------------------------------------------------
(* Main window helpers *)

colors == [l \in 1..5 |->
             CASE l = 1 -> "#6eb6ff"
               [] l = 2 -> "#36b24a"
               [] l = 3 -> "#ffd84a"
               [] l = 4 -> "#ff8f2b"
               [] l = 5 -> "#ff3737"]

set_emf_ui(level) == [dot |-> colors[level], lbl |-> <<"EMF", level>>]

\* f"Monthly Total: {cur}{total:.2f}": sign, whole part, two decimals
format_total(cur, t) ==
    LET a == IF t < 0 THEN -t ELSE t
    IN [cur |-> cur, neg |-> t < 0, whole |-> a \div Cents, frac |-> a % Cents]

\* the amount a reader of the label sees
shown_total(lbl) ==
    (IF lbl.neg THEN -1 ELSE 1) * (lbl.whole * Cents + lbl.frac)

fill_years(d) == distinct_years(d) \cup {Today.y}

\* reload(), run on the state the handler has produced so far
reload(d, y, m, st, s) ==
    LET t == month_total(d, y, m)
        l == emf_level_from_total(t)
    IN /\ table' = list_month(d, y, m)
       /\ total' = t
       /\ lvl' = l
       /\ lbl_total' = format_total(st.currency, t)
       /\ emf_dot' = set_emf_ui(l).dot
       /\ lbl_emf' = set_emf_ui(l).lbl
       /\ sfx' = play_for_level(s, l)

NoExport == [called |-> FALSE, path |-> "", attempted |-> FALSE,
             raised |-> FALSE, dialogs |-> <<>>, escaped |-> FALSE]

----------------------------------------------------------------------------
(* The application: MainWindow.__init__ and its handlers *)

Init ==
    /\ HAVE_SOUND \in BOOLEAN
    /\ wavs \in WavSets
    /\ db \in DbsUpTo(MaxExpenses)
    /\ settings \in [sound_enabled : BOOLEAN, currency : Currencies]
    /\ cmb_year = [items |-> fill_years(db), current |-> Today.y]
    /\ cmb_month = Today.m
    /\ export = NoExport
    /\ LET s0 == EMFSound(wavs, settings.sound_enabled)
           s1 == set_muted(s0, ~settings.sound_enabled)
           t  == month_total(db, Today.y, Today.m)
           l  == emf_level_from_total(t)
       IN /\ table = list_month(db, Today.y, Today.m)
          /\ total = t
          /\ lvl = l
          /\ lbl_total = format_total(settings.currency, t)
          /\ emf_dot = set_emf_ui(l).dot
          /\ lbl_emf = set_emf_ui(l).lbl
          /\ sfx = play_for_level(s1, l)

on_year_changed(y) ==
    /\ y \in cmb_year.items
    /\ y # cmb_year.current
    /\ cmb_year' = [cmb_year EXCEPT !.current = y]
    /\ reload(db, y, cmb_month, get_settings, sfx)
    /\ UNCHANGED <<HAVE_SOUND, wavs, db, settings, cmb_month, export>>

on_month_changed(m) ==
    /\ m # cmb_month
    /\ cmb_month' = m
    /\ reload(db, cmb_year.current, m, get_settings, sfx)
    /\ UNCHANGED <<HAVE_SOUND, wavs, db, settings, cmb_year, export>>

\* on_add that stores the expense and forgets to reload
on_add_no_reload(ok, v) ==
    IF ok
    THEN /\ db_size(db) < MaxExpenses
         /\ db' = add_expense(db, v.y, v.m, v.amount)
         /\ UNCHANGED <<HAVE_SOUND, wavs, settings, sfx, cmb_year, cmb_month,
                        table, lbl_total, emf_dot, lbl_emf, total, lvl, export>>
    ELSE UNCHANGED vars

on_add(ok, v) ==
    IF ok
    THEN /\ db_size(db) < MaxExpenses
         /\ db' = add_expense(db, v.y, v.m, v.amount)
         /\ reload(db', cmb_year.current, cmb_month, get_settings, sfx)
         /\ UNCHANGED <<HAVE_SOUND, wavs, settings, cmb_year, cmb_month, export>>
    ELSE UNCHANGED vars

on_manage ==
    /\ db' \in ManageDialog(db, cmb_year.current, cmb_month)
    /\ reload(db', cmb_year.current, cmb_month, get_settings, sfx)
    /\ UNCHANGED <<HAVE_SOUND, wavs, settings, cmb_year, cmb_month, export>>

on_settings(ok, enabled, cur) ==
    IF ok
    THEN /\ settings' = [sound_enabled |-> enabled, currency |-> cur]
         /\ reload(db, cmb_year.current, cmb_month, settings',
                   set_muted(sfx, ~enabled))
         /\ UNCHANGED <<HAVE_SOUND, wavs, db, cmb_year, cmb_month, export>>
    ELSE UNCHANGED vars

\* the handler without its try/except: the exception leaves on_export
on_export_unguarded(path, raises) ==
    /\ export' =
         IF path = ""
         THEN [NoExport EXCEPT !.called = TRUE]
         ELSE [called |-> TRUE, path |-> path, attempted |-> TRUE,
               raised |-> raises,
               dialogs |-> IF raises THEN <<>> ELSE <<"PDF saved.">>,
               escaped |-> raises]
    /\ UNCHANGED <<HAVE_SOUND, wavs, db, settings, sfx, cmb_year, cmb_month,
                   table, lbl_total, emf_dot, lbl_emf, total, lvl>>

on_export(path, raises) ==
    /\ export' =
         IF path = ""
         THEN [NoExport EXCEPT !.called = TRUE]
         ELSE LET in_try == IF raises THEN <<>> ELSE <<"PDF saved.">>
                  in_except == IF raises THEN <<"Export failed">> ELSE <<>>
              IN [called |-> TRUE, path |-> path, attempted |-> TRUE,
                  raised |-> raises, dialogs |-> in_try \o in_except,
                  escaped |-> FALSE]
    /\ UNCHANGED <<HAVE_SOUND, wavs, db, settings, sfx, cmb_year, cmb_month,
                   table, lbl_total, emf_dot, lbl_emf, total, lvl>>

\* a clip that has played its 999_999 loops stops by itself
LoopFinished ==
    /\ \E l \in sfx.playing : sfx' = [sfx EXCEPT !.playing = @ \ {l}]
    /\ UNCHANGED <<HAVE_SOUND, wavs, db, settings, cmb_year, cmb_month, table,
                   lbl_total, emf_dot, lbl_emf, total, lvl, export>>

Next ==
    \/ \E y \in Years : on_year_changed(y)
    \/ \E m \in Months : on_month_changed(m)
    \/ \E ok \in BOOLEAN :
          \E v \in (IF ok THEN Kinds ELSE {NoValues}) : on_add(ok, v)
    \/ on_manage
    \/ \E ok \in BOOLEAN :
          \E en \in (IF ok THEN BOOLEAN ELSE {FALSE}),
             cur \in (IF ok THEN Currencies ELSE {"GBP"}) :
             on_settings(ok, en, cur)
    \/ \E p \in Paths :
          \E r \in (IF p = "" THEN {FALSE} ELSE BOOLEAN) : on_export(p, r)
    \/ LoopFinished

Spec == Init /\ [][Next]_vars

----------------------------------------------------------------------------
(* The sound engine on its own: any sequence of calls on one EMFSound *)

SoundFrame ==
    UNCHANGED <<HAVE_SOUND, wavs, db, settings, cmb_year, cmb_month, table,
                lbl_total, emf_dot, lbl_emf, total, lvl, export>>

SoundInit ==
    /\ HAVE_SOUND \in BOOLEAN
    /\ wavs \in SUBSET ClipLevels
    /\ db = EmptyDb
    /\ settings \in [sound_enabled : BOOLEAN, currency : {"GBP"}]
    /\ sfx = EMFSound(wavs, settings.sound_enabled)
    /\ cmb_year = [items |-> {Today.y}, current |-> Today.y]
    /\ cmb_month = Today.m
    /\ table = list_month(EmptyDb, Today.y, Today.m)
    /\ total = 0
    /\ lvl = 1
    /\ lbl_total = format_total("GBP", 0)
    /\ emf_dot = set_emf_ui(1).dot
    /\ lbl_emf = set_emf_ui(1).lbl
    /\ export = NoExport

call_play_for_level(level) ==
    /\ sfx' = play_for_level(sfx, level)
    /\ SoundFrame

call_set_muted(muted) ==
    /\ sfx' = set_muted(sfx, muted)
    /\ SoundFrame

call_stop ==
    /\ sfx' = stop(sfx)
    /\ SoundFrame

SoundNext ==
    \/ \E level \in LevelArgs : call_play_for_level(level)
    \/ \E muted \in BOOLEAN : call_set_muted(muted)
    \/ call_stop
    \/ LoopFinished

SoundSpec == SoundInit /\ [][SoundNext]_vars

----------------------------------------------------------------------------
(* Properties *)

\* C1: every monthly total, zero and negative ones included, is mapped to
\* exactly one tier in 1..5 by the threshold table: 5 from 2000, 4 from 1500,
\* 3 from 1000, 2 from 500, and 1 below 500.
C1_TierTable ==
    /\ lvl \in 1..5
    /\ (total >= 2000 * Cents) <=> (lvl = 5)
    /\ (1500 * Cents <= total /\ total < 2000 * Cents) <=> (lvl = 4)
    /\ (1000 * Cents <= total /\ total < 1500 * Cents) <=> (lvl = 3)
    /\ (500 * Cents <= total /\ total < 1000 * Cents) <=> (lvl = 2)
    /\ (total < 500 * Cents) <=> (lvl = 1)

C1_Witness ==
    /\ cmb_year.current = 2025
    /\ cmb_month = 12
    /\ total < 0
    /\ lvl = 1
    /\ month_total(db, 2026, 11) = 1500 * Cents

\* C2: whenever the window is idle, the displayed monthly total is the stored
\* total of the selected year and month, and the EMF label and the dot colour
\* are those of the tier of that stored total, one colour per tier.
C2_DisplayInSync ==
    LET t == month_total(db, cmb_year.current, cmb_month)
        l == emf_level_from_total(t)
    IN /\ shown_total(lbl_total) = t
       /\ lbl_emf = <<"EMF", l>>
       /\ emf_dot = colors[l]
       /\ \A a, b \in 1..5 : colors[a] = colors[b] => a = b

C2_Witness ==
    /\ cmb_year.current = 2025
    /\ cmb_month = 12
    /\ month_total(db, 2025, 12) = 2000 * Cents
    /\ month_total(db, 2026, 11) = -1
    /\ emf_dot = "#ff3737"

\* a step of a handler that runs reload() to its end
ReloadStep ==
    \/ \E y \in Years : on_year_changed(y)
    \/ \E m \in Months : on_month_changed(m)
    \/ \E v \in Kinds : on_add(TRUE, v)
    \/ on_manage
    \/ \E en \in BOOLEAN, cur \in Currencies : on_settings(TRUE, en, cur)

AudioInSync ==
    sfx.enabled =>
        /\ (lvl >= 2 /\ lvl \in sfx.effects) => sfx.playing = {lvl}
        /\ (lvl = 1) => sfx.playing = {}

\* C3: after every reload with sound enabled (the one of construction
\* included), the clip of the month's tier is the only clip playing when the
\* tier is 2 or more and its clip is loaded, and nothing plays at tier 1,
\* whatever was playing before.
C3_AudioInSyncAfterReload ==
    AudioInSync /\ [][ReloadStep => AudioInSync']_vars

C3_Witness ==
    /\ sfx.enabled
    /\ cmb_year.current = 2025
    /\ lvl = 4
    /\ sfx.playing = {4}
    /\ month_total(db, 2026, 11) = 500 * Cents

\* C4: after the settings dialog is accepted with sound enabled, the sound
\* backend available and the clip file of the month's tier present, the clip
\* of that tier plays if the tier is 2 or more, whatever the saved setting was
\* at start-up.
C4_EnableAppliesImmediately ==
    [][(\E cur \in Currencies : on_settings(TRUE, TRUE, cur)) =>
        ((HAVE_SOUND' /\ lvl' >= 2 /\ lvl' \in wavs') => lvl' \in sfx'.playing)]_vars

\* C5: while the engine is muted no clip plays and cur_level is 1, and only
\* set_muted(False) ends the muting.
C5_MutedStaysSilent ==
    /\ [](~sfx.enabled => (sfx.playing = {} /\ sfx.cur_level = 1))
    /\ [][(~sfx.enabled /\ sfx'.enabled) => sfx' = set_muted(sfx, FALSE)]_vars

C5_Witness ==
    /\ ~sfx.enabled
    /\ HAVE_SOUND
    /\ sfx.effects = ClipLevels

\* C6: a failing PDF export is caught and shows "Export failed"; "PDF saved."
\* is shown only when the export raised nothing; an attempted export shows
\* exactly one dialog; a cancelled file dialog attempts nothing and shows
\* nothing; no exception leaves on_export.
C6_ExportDialogs ==
    /\ ~export.escaped
    /\ export.attempted <=> (export.called /\ export.path # "")
    /\ export.attempted => Len(export.dialogs) = 1
    /\ ~export.attempted => export.dialogs = <<>>
    /\ (export.attempted /\ export.raised) => export.dialogs = <<"Export failed">>
    /\ (export.attempted /\ ~export.raised) => export.dialogs = <<"PDF saved.">>

C6_Witness ==
    /\ export.attempted
    /\ export.raised
    /\ export.dialogs = <<"Export failed">>

\* C7: after any sequence of EMFSound calls at most one clip plays, a playing
\* clip is the clip of cur_level with cur_level in 2..5, and cur_level is
\* always in 1..5.
C7_OneClipOfCurLevel ==
    /\ sfx.cur_level \in 1..5
    /\ Cardinality(sfx.playing) <= 1
    /\ sfx.playing # {} => (sfx.playing = {sfx.cur_level} /\ sfx.cur_level \in 2..5)

C7_Witness ==
    /\ sfx.cur_level = 5
    /\ sfx.playing = {5}
    /\ sfx.effects = {5}

====
